---- MODULE Spec2Model ----
(***************************************************************************)
(* Model of web_monitor_bot.py: the incident tracker kept in the module    *)
(* globals down_since / alerted / ok_streak, the periodic monitor_loop     *)
(* task and the /check command handler cmd_check, as coroutines of one     *)
(* asyncio event loop.  A coroutine runs without interruption between two  *)
(* awaits, so every action below is the code from one await to the next.   *)
(***************************************************************************)
EXTENDS Integers, Sequences, FiniteSets, TLC

\* ---------------------------------------------------------------- bounds
MaxClock    == 4     \* the wall clock is cut off at this reading
MaxConfirms == 2     \* RECOVERY_CONFIRMS is configured in 1..MaxConfirms
MaxCode     == 600   \* HTTP status codes are drawn from 0..MaxCode
MaxSeconds  == 3700  \* elapsed downtimes are drawn from 0..MaxSeconds seconds

NoTime == 0 - 1        \* "no timestamp" in history variables

\* ------------------------------------------------------- configuration
\* WEBSITES, a list of distinct URLs.  The loop and the handler treat every
\* URL alike and touch only the entries of the URL in hand, so the model
\* monitors two of them.
WEBSITES == <<"A", "B">>
NumSites == Len(WEBSITES)
Urls     == {WEBSITES[i] : i \in 1..NumSites}

\* The values check_website gives r["status"].
Statuses == {"ok", "warning", "error", "timeout"}

\* What run_checks can return: one result per URL, in WEBSITES order.
RunChecksResults ==
    {[i \in 1..NumSites |-> [url |-> WEBSITES[i], status |-> f[i]]] :
        f \in [1..NumSites -> Statuses]}

VARIABLES
    RECOVERY_CONFIRMS,  \* the configured threshold (module global)
    down_since,         \* dict url -> time the incident was opened
    alerted,            \* set of urls an Alert was sent for
    ok_streak,          \* dict url -> consecutive OK checks while alerted
    clock,              \* what now_tz() returns
    mon_pc,             \* monitor_loop: the await it is suspended at
    mon_results,        \* monitor_loop: results the for loop has left,
                        \*   the head being the one in hand at an await
    mon_now,            \* monitor_loop: local `now` of the cycle
    mon_since,          \* monitor_loop: local `since` of a recovery
    chk_pc,             \* cmd_check: the await it is suspended at
    \* ---- history variables (observations, not program state)
    mon_opened,         \* the result in hand opened its url's incident
    incident_alerts,    \* url -> Alerts delivered since its incident opened
    last_msg,           \* url -> kind of the last message delivered
    cycle_msg,          \* url -> message delivered in the current cycle
    expected,           \* url -> outcome the cycle owes the url
    run_ok,             \* url -> consecutive Ok results seen by the loop
    streak_reset,       \* url -> a positive streak was reset this incident
    delivery_failed,    \* a send_message of the loop has raised
    \* ---- one call of check_website
    cw_pc,              \* check_website: the await it is suspended at
    cw_context,         \* check_website: local `context` is not None
    cw_code,            \* check_website: local `code` (line 103)
    cw_result,          \* check_website: the dict its return statement built
    \* ---- one call of duration_str
    dur_delta,          \* now_tz() - since, in clock ticks
    dur_out             \* the string duration_str returned

tracker == <<down_since, alerted, ok_streak>>
monitor == <<mon_pc, mon_results, mon_now, mon_since>>
checker == <<chk_pc>>
history == <<mon_opened, incident_alerts, last_msg, cycle_msg, expected, run_ok, streak_reset,
             delivery_failed>>
probe   == <<cw_pc, cw_context, cw_code, cw_result>>
format  == <<dur_delta, dur_out>>
vars    == <<RECOVERY_CONFIRMS, tracker, clock, monitor, checker, history,
             probe, format>>

\* ------------------------------------------------------------ dict helpers
Put(d, k, v) == [x \in DOMAIN d \cup {k} |-> IF x = k THEN v ELSE d[x]]
Pop(d, k)    == [x \in DOMAIN d \ {k} |-> d[x]]
Get(d, k, v) == IF k \in DOMAIN d THEN d[k] ELSE v
EmptyDict    == [x \in {} |-> 0]

Min(a, b) == IF a < b THEN a ELSE b
RunCap    == MaxConfirms + 1

\* The tracker globals (and the history that goes with them) as one record,
\* so that the synchronous part of the for loop can be folded over it.
Tracker ==
    [down_since |-> down_since, alerted |-> alerted, ok_streak |-> ok_streak,
     incident_alerts |-> incident_alerts, run_ok |-> run_ok,
     streak_reset |-> streak_reset]

\* ------------------------------------------------- monitor_loop, per result
\* Line 239: is_ok, the only test the loop makes of a result.
IsOk_RedirectHealthy(r) == r.status \in {"ok", "warning"}

IsOk(r) == r.status = "ok"

\* Lines 243-246: a non-Ok result resets the streak and opens the incident.
NotOkBranch_NoReset(t, url, now) ==
    [t EXCEPT !.down_since = IF url \in DOMAIN @ THEN @ ELSE Put(@, url, now)]

NotOkBranch_Overwrite(t, url, now) ==
    [t EXCEPT !.ok_streak  = Pop(@, url),
              !.down_since = Put(@, url, now)]

NotOkBranch(t, url, now) ==
    [t EXCEPT !.ok_streak  = Pop(@, url),
              !.down_since = IF url \in DOMAIN @ THEN @ ELSE Put(@, url, now)]

\* Line 261: count one more consecutive OK for an alerted url.
CountOk(t, url) ==
    [t EXCEPT !.ok_streak = Put(@, url, Get(@, url, 0) + 1)]

\* Lines 266-268: recovery confirmed, the incident is closed.
ConfirmRecovery_KeepStreak(t, url) ==
    [t EXCEPT !.down_since = Pop(@, url),
              !.alerted    = @ \ {url}]

ConfirmRecovery_KeepAlerted(t, url) ==
    [t EXCEPT !.down_since = Pop(@, url),
              !.ok_streak  = Pop(@, url)]

ConfirmRecovery(t, url) ==
    [t EXCEPT !.down_since = Pop(@, url),
              !.alerted    = @ \ {url},
              !.ok_streak  = Pop(@, url)]

\* Lines 259-274: an Ok result.
OkBranch_CountAlways(t, url) ==
    LET t1 == CountOk(t, url) IN
    IF url \in t.alerted /\ t1.ok_streak[url] >= RECOVERY_CONFIRMS
    THEN ConfirmRecovery(t1, url)
    ELSE t1

OkBranch(t, url) ==
    IF url \in t.alerted
    THEN LET t1 == CountOk(t, url) IN
         IF t1.ok_streak[url] >= RECOVERY_CONFIRMS
         THEN ConfirmRecovery(t1, url)
         ELSE t1
    ELSE [t EXCEPT !.ok_streak = Pop(@, url)]

\* What the history variables record of one result's handling t -> t1.
Observe(t, t1, r) ==
    LET u      == r.url
        opened == u \notin DOMAIN t.down_since /\ u \in DOMAIN t1.down_since
    IN [t1 EXCEPT
          !.run_ok[u] = IF r.status = "ok" THEN Min(@ + 1, RunCap) ELSE 0,
          !.streak_reset[u] =
              IF opened THEN FALSE
              ELSE IF r.status # "ok" /\ u \in DOMAIN t.ok_streak THEN TRUE
              ELSE @,
          !.incident_alerts[u] = IF opened THEN 0 ELSE @]

\* Lines 238-274 for one result r, up to the await it reaches (if any):
\* the tracker after it, and the send_message the loop then waits for.
HandleResult(t, r, now) ==
    IF ~IsOk(r)
    THEN [t      |-> Observe(t, NotOkBranch(t, r.url, now), r),
          await  |-> IF r.url \notin t.alerted THEN "send_alert" ELSE "none",
          since  |-> NoTime,
          opened |-> r.url \notin DOMAIN t.down_since]
    ELSE LET t1 == OkBranch(t, r.url)
             confirmed == r.url \in t.alerted /\ r.url \notin t1.alerted
         IN [t      |-> Observe(t, t1, r),
             await  |-> IF confirmed THEN "send_recovery" ELSE "none",
             since  |-> IF confirmed THEN Get(t.down_since, r.url, now)
                        ELSE NoTime,
             opened |-> FALSE]

\* The for loop of lines 237-274 run over rs until it has to await: either a
\* send_message (rs keeps the result in hand as its head) or, with the
\* results exhausted, the sleep of line 276.
RECURSIVE ForLoop(_, _, _)
ForLoop(t, rs, now) ==
    IF rs = <<>>
    THEN [t |-> t, pc |-> "sleep", rest |-> <<>>, since |-> NoTime,
          opened |-> FALSE]
    ELSE LET h == HandleResult(t, Head(rs), now) IN
         IF h.await = "none"
         THEN ForLoop(h.t, Tail(rs), now)
         ELSE [t |-> h.t, pc |-> h.await, rest |-> rs, since |-> h.since,
               opened |-> h.opened]

\* Store the outcome of a run of the for loop into the variables.
Resume(f) ==
    /\ down_since'      = f.t.down_since
    /\ alerted'         = f.t.alerted
    /\ ok_streak'       = f.t.ok_streak
    /\ incident_alerts' = f.t.incident_alerts
    /\ run_ok'          = f.t.run_ok
    /\ streak_reset'    = f.t.streak_reset
    /\ mon_pc'          = f.pc
    /\ mon_results'     = f.rest
    /\ mon_since'       = f.since
    /\ mon_opened'      = f.opened

\* No outcome is owed: no results have come in for the cycle.
NoOutcome == <<FALSE, FALSE, 0, "no results">>

\* The outcome a cycle owes url u, given the tracker when the results came
\* in and u's own result: (has down_since, alerted, ok_streak, message).
Owed(t, r) ==
    LET u == r.url IN
    IF r.status # "ok"
    THEN <<TRUE, TRUE, 0,
           IF u \in t.alerted THEN "none" ELSE "alert">>
    ELSE IF u \in t.alerted
         THEN IF Get(t.ok_streak, u, 0) + 1 >= RECOVERY_CONFIRMS
              THEN <<FALSE, FALSE, 0, "recovery">>
              ELSE <<TRUE, TRUE, Get(t.ok_streak, u, 0) + 1, "none">>
         ELSE <<u \in DOMAIN t.down_since, FALSE, 0, "none">>

\* ---------------------------------------------------------- check_website
None  == 0 - 1         \* Python's None where an int is expected
Unset == 0 - 2         \* a local that has not been assigned yet

\* The status codes a response can carry.
Codes == 0..MaxCode

\* str(e) of the exceptions the awaits of lines 91-101 raise, and the test
\* of line 119 on each of them: "timeout" in err.lower().
Exceptions ==
    {"Timeout 60000ms exceeded.", "TIMEOUT waiting for navigation",
     "net::ERR_NAME_NOT_RESOLVED", "Target page, context or browser has been closed"}
MentionsTimeout(err) ==
    err \in {"Timeout 60000ms exceeded.", "TIMEOUT waiting for navigation"}

\* Lines 105-112: the status given to local `code`.
Classify_LooseOk(code) ==
    IF code = None THEN "error"
    ELSE IF 200 <= code /\ code <= 300 THEN "ok"
    ELSE IF 300 <= code /\ code < 400 THEN "warning"
    ELSE "error"

Classify(code) ==
    IF code = None THEN "error"
    ELSE IF 200 <= code /\ code < 300 THEN "ok"
    ELSE IF 300 <= code /\ code < 400 THEN "warning"
    ELSE "error"

\* Lines 114-115: the dict returned for a response (url, time_ms and
\* description left out).
ResponseResult(code) == [status |-> Classify(code), code |-> code]

\* Lines 117-123: the dict returned by the except clause.
ExceptResult(err) ==
    [status |-> IF MentionsTimeout(err) THEN "timeout" ELSE "error",
     code   |-> None]

NoResult == [status |-> "", code |-> Unset]

\* ------------------------------------------------------------ duration_str
\* The clock reads in ticks of half a second; int(delta.total_seconds()) of
\* line 165 drops the fraction of a non-negative delta.
TicksPerSecond == 2
TotalSeconds(delta) == delta \div TicksPerSecond

\* Lines 166-172 on total = int(delta.total_seconds()).
duration_str_MinutesOfTotal(total) ==
    LET h == total \div 3600
        m == total \div 60
        s == (total % 3600) % 60
    IN IF h # 0 THEN ToString(h) \o "h " \o ToString(m) \o "m"
       ELSE IF m # 0 THEN ToString(m) \o "m " \o ToString(s) \o "s"
       ELSE ToString(s) \o "s"

duration_str(total) ==
    LET h   == total \div 3600
        rem == total % 3600
        m   == rem \div 60
        s   == rem % 60
    IN IF h # 0 THEN ToString(h) \o "h " \o ToString(m) \o "m"
       ELSE IF m # 0 THEN ToString(m) \o "m " \o ToString(s) \o "s"
       ELSE ToString(s) \o "s"

\* ------------------------------------------------------------------ Init
\* The tracker, the loop and the handler after the module is loaded and
\* post_init has created the monitor task.
BotStarted ==
    /\ RECOVERY_CONFIRMS \in 1..MaxConfirms
    /\ down_since = EmptyDict
    /\ alerted = {}
    /\ ok_streak = EmptyDict
    /\ clock = 0
    /\ mon_pc = "run_checks"
    /\ mon_results = <<>>
    /\ mon_now = 0
    /\ mon_since = NoTime
    /\ chk_pc = "idle"
    /\ mon_opened = FALSE
    /\ incident_alerts = [u \in Urls |-> 0]
    /\ last_msg = [u \in Urls |-> "none"]
    /\ cycle_msg = [u \in Urls |-> "none"]
    /\ expected = [u \in Urls |-> NoOutcome]
    /\ run_ok = [u \in Urls |-> 0]
    /\ streak_reset = [u \in Urls |-> FALSE]
    /\ delivery_failed = FALSE

\* No call of check_website, no call of duration_str.
ProbeIdle ==
    /\ cw_pc = "idle"
    /\ cw_context = FALSE
    /\ cw_code = Unset
    /\ cw_result = NoResult

FormatIdle ==
    /\ dur_delta = 0
    /\ dur_out = ""

Init == BotStarted /\ ProbeIdle /\ FormatIdle

\* ---------------------------------------------------------- monitor_loop
\* Line 234 returns: run_checks hands over the results, line 235 reads the
\* clock and the for loop runs up to its first await.
MonitorRunChecksReturn ==
    /\ mon_pc = "run_checks"
    /\ \E results \in RunChecksResults :
          /\ mon_now' = clock
          /\ expected' = [u \in Urls |->
                 LET i == CHOOSE j \in 1..NumSites : results[j].url = u
                 IN Owed(Tracker, results[i])]
          /\ Resume(ForLoop(Tracker, results, clock))
    /\ UNCHANGED <<RECOVERY_CONFIRMS, clock, checker, last_msg, cycle_msg,
                   delivery_failed,
                   probe, format>>

\* Line 234 raises (the browser cannot be launched or closed): nothing in
\* monitor_loop catches it, the task ends.
MonitorRunChecksRaises ==
    /\ mon_pc = "run_checks"
    /\ mon_pc' = "dead"
    /\ UNCHANGED <<RECOVERY_CONFIRMS, tracker, clock, mon_results, mon_now,
                   mon_since, checker, history,
                   probe, format>>

\* Line 251 returns: the Alert is delivered, lines 252-253, and the for
\* loop goes on with the next result.
MonitorAlertSent_NoMark ==
    /\ mon_pc = "send_alert"
    /\ LET u == Head(mon_results).url
           t == [Tracker EXCEPT !.incident_alerts[u] = Min(@ + 1, 2)]
       IN /\ last_msg'  = [last_msg EXCEPT ![u] = "alert"]
          /\ cycle_msg' = [cycle_msg EXCEPT ![u] = "alert"]
          /\ Resume(ForLoop(t, Tail(mon_results), mon_now))
    /\ UNCHANGED <<RECOVERY_CONFIRMS, clock, mon_now, checker, expected,
                   delivery_failed, probe, format>>

MonitorAlertSent ==
    /\ mon_pc = "send_alert"
    /\ LET u == Head(mon_results).url
           t == [Tracker EXCEPT !.alerted = @ \cup {u},
                                !.incident_alerts[u] = Min(@ + 1, 2)]
       IN /\ last_msg'  = [last_msg EXCEPT ![u] = "alert"]
          /\ cycle_msg' = [cycle_msg EXCEPT ![u] = "alert"]
          /\ Resume(ForLoop(t, Tail(mon_results), mon_now))
    /\ UNCHANGED <<RECOVERY_CONFIRMS, clock, mon_now, checker, expected,
                   delivery_failed,
                   probe, format>>

\* Line 270 returns: the Recovery is delivered, line 271, next result.
MonitorRecoverySent ==
    /\ mon_pc = "send_recovery"
    /\ LET u == Head(mon_results).url
       IN /\ last_msg'  = [last_msg EXCEPT ![u] = "recovery"]
          /\ cycle_msg' = [cycle_msg EXCEPT ![u] = "recovery"]
          /\ Resume(ForLoop(Tracker, Tail(mon_results), mon_now))
    /\ UNCHANGED <<RECOVERY_CONFIRMS, clock, mon_now, checker, expected,
                   delivery_failed,
                   probe, format>>

\* Line 251 or line 270 raises (the delivery failed): no try/except is
\* around the send, the exception leaves monitor_loop and the task ends.
MonitorSendRaises ==
    /\ mon_pc \in {"send_alert", "send_recovery"}
    /\ mon_pc' = "dead"
    /\ delivery_failed' = TRUE
    /\ UNCHANGED <<RECOVERY_CONFIRMS, tracker, clock, mon_results, mon_now,
                   mon_since, checker, mon_opened, incident_alerts, last_msg,
                   cycle_msg, expected, run_ok, streak_reset,
                   probe, format>>

\* Line 276 returns after INTERVAL seconds: the next cycle starts (line 234).
MonitorWake ==
    /\ mon_pc = "sleep"
    /\ clock < MaxClock
    /\ clock' = clock + 1
    /\ mon_pc' = "run_checks"
    /\ cycle_msg' = [u \in Urls |-> "none"]
    /\ expected' = [u \in Urls |-> NoOutcome]
    /\ UNCHANGED <<RECOVERY_CONFIRMS, tracker, mon_results, mon_now,
                   mon_since, checker, mon_opened, incident_alerts, last_msg,
                   run_ok, streak_reset, delivery_failed,
                   probe, format>>

\* ------------------------------------------------------------- cmd_check
\* Lines 303-305: open an incident for every url newly seen failing.
RECURSIVE CmdCheckUpdate_Overwrite(_, _, _)
CmdCheckUpdate_Overwrite(ds, rs, now) ==
    IF rs = <<>> THEN ds
    ELSE LET r == Head(rs) IN
         CmdCheckUpdate_Overwrite(
             IF r.status # "ok" THEN Put(ds, r.url, now) ELSE ds,
             Tail(rs), now)

RECURSIVE CmdCheckUpdate_CloseOnOk(_, _, _)
CmdCheckUpdate_CloseOnOk(ds, rs, now) ==
    IF rs = <<>> THEN ds
    ELSE LET r == Head(rs) IN
         CmdCheckUpdate_CloseOnOk(
             IF r.status # "ok"
             THEN IF r.url \notin DOMAIN ds THEN Put(ds, r.url, now) ELSE ds
             ELSE Pop(ds, r.url),
             Tail(rs), now)

RECURSIVE CmdCheckUpdate(_, _, _)
CmdCheckUpdate(ds, rs, now) ==
    IF rs = <<>> THEN ds
    ELSE LET r == Head(rs) IN
         CmdCheckUpdate(
             IF r.status # "ok" /\ r.url \notin DOMAIN ds
             THEN Put(ds, r.url, now) ELSE ds,
             Tail(rs), now)

\* A /check update is dispatched: line 300 replies and line 301 starts
\* run_checks (handlers run one at a time: the Application is built without
\* concurrent_updates).
CmdCheckStart ==
    /\ chk_pc = "idle"
    /\ chk_pc' = "run_checks"
    /\ UNCHANGED <<RECOVERY_CONFIRMS, tracker, clock, monitor, history,
                   probe, format>>

\* Line 301 returns: lines 302-305 update down_since; line 306 builds the
\* report and awaits its delivery, after which the handler touches nothing.
CmdCheckRunChecksReturn ==
    /\ chk_pc = "run_checks"
    /\ \E results \in RunChecksResults :
          down_since' = CmdCheckUpdate(down_since, results, clock)
    /\ incident_alerts' = [u \in Urls |->
           IF u \in DOMAIN down_since' \ DOMAIN down_since
           THEN 0 ELSE incident_alerts[u]]
    /\ chk_pc' = "idle"
    /\ UNCHANGED <<RECOVERY_CONFIRMS, alerted, ok_streak, clock, monitor,
                   mon_opened, last_msg, cycle_msg, expected, run_ok,
                   streak_reset, delivery_failed,
                   probe, format>>

\* Line 301 raises: the handler ends (the Application logs the error).
CmdCheckRunChecksRaises ==
    /\ chk_pc = "run_checks"
    /\ chk_pc' = "idle"
    /\ UNCHANGED <<RECOVERY_CONFIRMS, tracker, clock, monitor, history,
                   probe, format>>

\* ------------------------------------------------------------------ time
\* Time passes while the coroutines are suspended.
Tick ==
    /\ clock < MaxClock
    /\ clock' = clock + 1
    /\ UNCHANGED <<RECOVERY_CONFIRMS, tracker, monitor, checker, history,
                   probe, format>>

Next ==
    \/ MonitorRunChecksReturn
    \/ MonitorRunChecksRaises
    \/ MonitorAlertSent
    \/ MonitorRecoverySent
    \/ MonitorSendRaises
    \/ MonitorWake
    \/ CmdCheckStart
    \/ CmdCheckRunChecksReturn
    \/ CmdCheckRunChecksRaises
    \/ Tick

Spec == Init /\ [][Next]_vars

TypeOK ==
    /\ RECOVERY_CONFIRMS \in 1..MaxConfirms
    /\ DOMAIN down_since \subseteq Urls
    /\ \A u \in DOMAIN down_since : down_since[u] \in 0..MaxClock
    /\ alerted \subseteq Urls
    /\ DOMAIN ok_streak \subseteq Urls
    /\ clock \in 0..MaxClock
    /\ mon_pc \in {"run_checks", "send_alert", "send_recovery", "sleep", "dead"}
    /\ chk_pc \in {"idle", "run_checks"}

\* --------------------------------------------- one call of check_website
bot == <<RECOVERY_CONFIRMS, tracker, clock, monitor, checker, history>>

\* Line 88 is entered: the call is at its first await, line 91.
ProbeInit ==
    /\ BotStarted
    /\ FormatIdle
    /\ cw_pc = "new_context"
    /\ cw_context = FALSE
    /\ cw_code = Unset
    /\ cw_result = NoResult

\* Lines 124-126: where the finally clause takes the call.
Finally(context) == IF context THEN "close" ELSE "returned"

\* Line 91 returns: `context` is assigned, line 99 is awaited.
NewContextReturns ==
    /\ cw_pc = "new_context"
    /\ cw_context' = TRUE
    /\ cw_pc' = "new_page"
    /\ UNCHANGED <<bot, format, cw_code, cw_result>>

\* Line 99 returns: line 101 is awaited.
NewPageReturns ==
    /\ cw_pc = "new_page"
    /\ cw_pc' = "goto"
    /\ UNCHANGED <<bot, format, cw_context, cw_code, cw_result>>

\* Line 101 returns a response (or None): lines 103-115 classify it and
\* build the dict, the finally clause runs before the return takes effect.
GotoReturns ==
    /\ cw_pc = "goto"
    /\ \E code \in Codes \cup {None} :
          /\ cw_code' = code
          /\ cw_result' = ResponseResult(code)
    /\ cw_pc' = Finally(cw_context)
    /\ UNCHANGED <<bot, format, cw_context>>

\* One of the awaits of lines 91, 99, 101 raises: the except clause builds
\* the dict, the finally clause runs.
AwaitRaises ==
    /\ cw_pc \in {"new_context", "new_page", "goto"}
    /\ \E err \in Exceptions : cw_result' = ExceptResult(err)
    /\ cw_pc' = Finally(cw_context)
    /\ UNCHANGED <<bot, format, cw_context, cw_code>>

\* Line 126 returns: the pending return takes effect.
ContextCloseReturns ==
    /\ cw_pc = "close"
    /\ cw_pc' = "returned"
    /\ UNCHANGED <<bot, format, cw_context, cw_code, cw_result>>

\* Line 126 raises: the finally clause is outside the try/except, so the
\* exception replaces the pending return and leaves check_website: the
\* dict that was built reaches nobody.
ContextCloseRaises ==
    /\ cw_pc = "close"
    /\ cw_pc' = "raised"
    /\ UNCHANGED <<bot, format, cw_context, cw_code, cw_result>>

ProbeNext ==
    \/ NewContextReturns
    \/ NewPageReturns
    \/ GotoReturns
    \/ AwaitRaises
    \/ ContextCloseReturns
    \/ ContextCloseRaises

ProbeSpec == ProbeInit /\ [][ProbeNext]_vars

\* ---------------------------------------------- one call of duration_str
\* build_recovery calls duration_str(since) some whole or fractional number
\* of seconds after `since`.
DurationInit ==
    /\ BotStarted
    /\ ProbeIdle
    /\ dur_delta \in 0..(MaxSeconds * TicksPerSecond + 1)
    /\ dur_out = ""

\* Lines 164-172.
DurationStrReturns ==
    /\ dur_out = ""
    /\ dur_out' = duration_str(TotalSeconds(dur_delta))
    /\ UNCHANGED <<bot, probe, dur_delta>>

DurationNext == DurationStrReturns

DurationSpec == DurationInit /\ [][DurationNext]_vars

\* =================================================================== claims
InCycle   == mon_pc \in {"run_checks", "send_alert", "send_recovery"}
InHand    == Head(mon_results).url
Streak(u) == Get(ok_streak, u, 0)

\* The loop leaves the await of the Alert it is sending for u, by the
\* send returning or by the send raising.
AlertHandled(u) ==
    /\ mon_pc = "send_alert"
    /\ InHand = u
    /\ mon_pc' # "send_alert" \/ mon_results' # mon_results

\* No incident has more than one Alert delivered (the part of C1 that does
\* not depend on the delivery succeeding).
AlertsPerIncidentAtMostOne == \A u \in Urls : incident_alerts[u] <= 1

\* C1: a non-Ok result processed by monitor_loop for an Up target (it opened
\* the incident) sends exactly one Alert and marks the target alerted, and
\* no incident ever gets a second Alert.
C1_UpTargetAlertedOnce ==
    [][\A u \in Urls :
          /\ (AlertHandled(u) /\ mon_opened) =>
                 (u \in alerted' /\ incident_alerts'[u] = 1)
          /\ incident_alerts'[u] <= 1]_vars

\* C2: while a streak is kept it equals the number of consecutive Ok results
\* the loop has seen since the last non-Ok one (so a non-Ok result leaves no
\* streak behind) and is below RECOVERY_CONFIRMS; and a Recovery is being
\* sent for a url only when that number is exactly RECOVERY_CONFIRMS.
C2_RecoveryOnlyAtThreshold ==
    \A u \in Urls :
        /\ u \in DOMAIN ok_streak =>
               (ok_streak[u] = run_ok[u] /\ ok_streak[u] < RECOVERY_CONFIRMS)
        /\ (mon_pc = "send_recovery" /\ InHand = u) =>
               run_ok[u] = RECOVERY_CONFIRMS

\* A Recovery is being sent, under a threshold above 1, for an incident
\* during which a failure had thrown away a positive streak.
C2_Witness ==
    /\ mon_pc = "send_recovery"
    /\ RECOVERY_CONFIRMS >= 2
    /\ streak_reset[InHand]

\* C3: a step that takes a url out of alerted or out of down_since takes it
\* out of alerted, down_since and ok_streak together, and the incident it
\* closes started before the cycle's `now`; a step that creates a down_since
\* entry stamps it with the `now` of the coroutine that creates it, which is
\* not before the `now` of the latest cycle; and the cycles' `now` never
\* goes back.  So an incident opened after a recovery starts later than the
\* closed one did.
C3_AtomicCloseFreshIncident ==
    [][/\ mon_now' >= mon_now
       /\ \A u \in Urls :
            /\ ((u \in alerted /\ u \notin alerted')
                  \/ (u \in DOMAIN down_since /\ u \notin DOMAIN down_since'))
               => /\ u \notin alerted'
                  /\ u \notin DOMAIN down_since'
                  /\ u \notin DOMAIN ok_streak'
                  /\ u \in DOMAIN down_since
                  /\ down_since[u] < mon_now'
            /\ (u \notin DOMAIN down_since /\ u \in DOMAIN down_since')
               => /\ down_since'[u] =
                        IF chk_pc' # chk_pc THEN clock ELSE mon_now'
                  /\ down_since'[u] >= mon_now']_vars

\* The loop opens a new incident for a url whose last message was the
\* Recovery that closed its previous incident.
C3_Witness ==
    /\ mon_pc = "send_alert"
    /\ mon_opened
    /\ last_msg[InHand] = "recovery"
    /\ down_since[InHand] = mon_now

\* C4: no step of cmd_check changes alerted or ok_streak or delivers an
\* Alert or a Recovery; it leaves every existing down_since entry as it is,
\* and the entries it adds are for urls whose result it got was not Ok.
C4_CheckOnlyOpensIncidents ==
    [][/\ chk_pc' # chk_pc =>
            /\ alerted' = alerted
            /\ ok_streak' = ok_streak
            /\ last_msg' = last_msg
            /\ cycle_msg' = cycle_msg
            /\ \A u \in Urls : incident_alerts'[u] <= incident_alerts[u]
            /\ \A u \in DOMAIN down_since :
                  u \in DOMAIN down_since' /\ down_since'[u] = down_since[u]
       /\ (chk_pc = "run_checks" /\ DOMAIN down_since' # DOMAIN down_since) =>
            \A results \in RunChecksResults :
               down_since' = CmdCheckUpdate(down_since, results, clock) =>
                  \A i \in 1..NumSites :
                     results[i].url \in DOMAIN down_since' \ DOMAIN down_since
                        => results[i].status # "ok"]_vars

\* Between two cycles, with one url alerted, another url has a down_since
\* entry that an on-demand check added.
C4_Witness ==
    /\ mon_pc = "sleep"
    /\ chk_pc = "idle"
    /\ alerted # {}
    /\ DOMAIN down_since \ alerted # {}

\* C5: a cycle of monitor_loop and the run_checks of a cmd_check are never
\* in progress in the same state.
C5_LoopAndCheckExclusive == ~(InCycle /\ chk_pc = "run_checks")

\* C6: after a send_message of the loop has raised, the loop is still
\* running.
C6_DeliveryFailureDoesNotAbort == delivery_failed => mon_pc # "dead"

\* What a url shows when a cycle ends: (has down_since, alerted, ok_streak,
\* message delivered in the cycle).
Outcome(u) == <<u \in DOMAIN down_since, u \in alerted, Streak(u), cycle_msg[u]>>

\* The cycle ended in the handling of u's own result.
EndedOn(u) == mon_results # <<>> /\ InHand = u

\* C7: when a cycle ends, every url other than the one whose handling ended
\* it shows the outcome that its own state at the start of the cycle and its
\* own result determine.
C7_PerTargetOutcome ==
    [][(InCycle /\ ~InCycle') =>
          \A u \in Urls :
             (expected'[u] # NoOutcome /\ ~EndedOn(u)') =>
                 Outcome(u)' = expected'[u]]_vars

\* C8: every alerted url has a down_since entry.
C8_AlertedHasIncident == \A u \in alerted : u \in DOMAIN down_since

\* A url is alerted while the loop awaits the delivery of another Alert and
\* an on-demand check is running.
C8_Witness ==
    /\ alerted # {}
    /\ mon_pc = "send_alert"
    /\ chk_pc = "run_checks"

\* C9: a url with a positive ok_streak entry is alerted.
C9_StreakOnlyWhileAlerted ==
    \A u \in DOMAIN ok_streak : ok_streak[u] > 0 => u \in alerted

\* A positive streak is held across an await of the loop while an on-demand
\* check is running.
C9_Witness ==
    /\ \E u \in Urls : Streak(u) > 0
    /\ mon_pc \in {"send_alert", "send_recovery"}
    /\ chk_pc = "run_checks"

\* C10: while the loop sleeps between two cycles and no on-demand check is
\* running, every url with a down_since entry is alerted.
C10_NoUnconfirmedAtRest ==
    (mon_pc = "sleep" /\ chk_pc = "idle") =>
        \A u \in DOMAIN down_since : u \in alerted

\* C11: an incident that is open when a cycle handles its results has had
\* exactly one Alert delivered when the handling is over (the loop is the
\* only sender of Alerts, so an incident it passes over has none), and no
\* down_since entry is removed with another number of Alerts than one.
C11_OpenIncidentAlerted ==
    [][\A u \in DOMAIN down_since :
          /\ (mon_pc = "run_checks" /\ mon_pc' = "sleep"
                /\ u \in DOMAIN down_since') => incident_alerts'[u] = 1
          /\ u \notin DOMAIN down_since' => incident_alerts[u] = 1]_vars

\* C12: under threshold 1, when a cycle ends every url has got the message
\* its result and its being alerted before the cycle call for: an Alert iff
\* not Ok and not alerted, a Recovery iff Ok and alerted, else nothing.
C12_CycleMessages ==
    [][(RECOVERY_CONFIRMS = 1 /\ InCycle /\ ~InCycle') =>
          \A u \in Urls :
             expected'[u] # NoOutcome => cycle_msg'[u] = expected'[u][4]]_vars

\* C13: no call of check_website ends with an exception leaving it, and a
\* call in which an await failed returns a dict with status "timeout" or
\* "error".
C13_ProberNeverThrows ==
    /\ cw_pc # "raised"
    /\ (cw_pc = "returned" /\ cw_code = Unset) =>
          cw_result.status \in {"timeout", "error"}

\* C14: every await of run_checks by the loop ends with every url
\* evaluated (an outcome is owed to each) and the loop alive.
C14_CatastropheEvaluated ==
    [][(mon_pc = "run_checks" /\ mon_pc' # "run_checks") =>
          /\ mon_pc' # "dead"
          /\ \A u \in Urls : expected'[u] # NoOutcome]_vars

\* C16: a response's code c (None for no status code) has status "ok" iff
\* 200 <= c < 300, "warning" iff 300 <= c < 400, and "error" otherwise.
C16_StatusClassification ==
    cw_code # Unset =>
       LET c      == cw_code
           status == cw_result.status
       IN /\ status \in {"ok", "warning", "error"}
          /\ status = "ok" <=> (c # None /\ 200 <= c /\ c < 300)
          /\ status = "warning" <=> (c # None /\ 300 <= c /\ c < 400)
          /\ status = "error" <=> (c = None \/ c < 200 \/ c >= 400)
          /\ cw_result.code = c

C16_Witness ==
    /\ cw_pc = "returned"
    /\ cw_code = 300
    /\ cw_result.status = "warning"

\* C17: for t whole seconds, h = t div 3600, m = (t mod 3600) div 60 and
\* s = t mod 60, duration_str gives "<h>h <m>m" if h > 0, "<m>m <s>s" if
\* h = 0 and m > 0, and "<s>s" otherwise; 90 s is "1m 30s", 3661 s is
\* "1h 1m", 45 s is "45s".
C17_DurationFormat ==
    dur_out # "" =>
       LET t == TotalSeconds(dur_delta)
           h == t \div 3600
           m == (t % 3600) \div 60
           s == t % 60
       IN /\ h > 0 => dur_out = ToString(h) \o "h " \o ToString(m) \o "m"
          /\ (h = 0 /\ m > 0) =>
                dur_out = ToString(m) \o "m " \o ToString(s) \o "s"
          /\ (h = 0 /\ m = 0) => dur_out = ToString(s) \o "s"
          /\ t = 90 => dur_out = "1m 30s"
          /\ t = 3661 => dur_out = "1h 1m"
          /\ t = 45 => dur_out = "45s"

C17_Witness ==
    /\ TotalSeconds(dur_delta) = 3661
    /\ dur_out = "1h 1m"

\* C15: whatever the tracker holds, the loop handles a "warning" result for
\* a url as it handles an "error" or a "timeout" result: the incident is
\* open afterwards, the streak is gone, and an Alert is awaited iff the url
\* was not alerted.
C15_RedirectIsFailure ==
    \A u \in Urls :
       LET w == HandleResult(Tracker, [url |-> u, status |-> "warning"], clock)
           e == HandleResult(Tracker, [url |-> u, status |-> "error"], clock)
           o == HandleResult(Tracker, [url |-> u, status |-> "timeout"], clock)
       IN /\ w = e
          /\ w = o
          /\ u \in DOMAIN w.t.down_since
          /\ u \notin DOMAIN w.t.ok_streak
          /\ w.t.alerted = alerted
          /\ w.await = IF u \in alerted THEN "none" ELSE "send_alert"

\* A "warning" result for an Up url has opened its incident and the loop is
\* sending the Alert.
C15_Witness ==
    /\ mon_pc = "send_alert"
    /\ Head(mon_results).status = "warning"
    /\ mon_opened
    /\ InHand \in DOMAIN down_since

\* An Alert or a Recovery for u is delivered in this step.
Delivered(u, kind) == cycle_msg[u] = "none" /\ cycle_msg'[u] = kind

\* C18: an Alert for a url is delivered only if the last message delivered
\* for it was not an Alert, and a Recovery only if the last one was an
\* Alert; so the messages of a url go Alert, Recovery, Alert, ...
C18_MessagesAlternate ==
    [][\A u \in Urls :
          /\ Delivered(u, "alert") => last_msg[u] # "alert"
          /\ Delivered(u, "recovery") => last_msg[u] = "alert"]_vars

\* A Recovery has been delivered for one url while the last message of
\* another is an Alert.
C18_Witness ==
    \E u, v \in Urls :
       /\ cycle_msg[u] = "recovery"
       /\ last_msg[u] = "recovery"
       /\ last_msg[v] = "alert"

\* C19: a down_since entry keeps its value in every step that keeps it, and
\* the only step that removes it is the loop confirming the url's recovery,
\* with `since`, which the Recovery message reports, being that value.
C19_IncidentStartStable ==
    [][\A u \in DOMAIN down_since :
          IF u \in DOMAIN down_since'
          THEN down_since'[u] = down_since[u]
          ELSE /\ chk_pc' = chk_pc
               /\ mon_pc' = "send_recovery"
               /\ InHand' = u
               /\ mon_since' = down_since[u]]_vars

\* A cycle later than the one that alerted u has seen u not Ok and has gone
\* to sleep; the incident still has its earlier start.
C19_Witness ==
    \E u \in alerted :
       /\ mon_pc = "sleep"
       /\ run_ok[u] = 0
       /\ cycle_msg[u] = "none"
       /\ down_since[u] < mon_now

\* C20: a step of cmd_check leaves the down_since, alerted and ok_streak
\* entries of every url that is alerted or has an incident as they are and
\* delivers nothing about it; a streak grows and an alerted url is cleared
\* only in steps of the loop whose result for the url was Ok.
C20_CheckNeverAdvances ==
    [][\A u \in Urls :
          /\ (chk_pc' # chk_pc /\ (u \in alerted \/ u \in DOMAIN down_since)) =>
                /\ u \in DOMAIN down_since' <=> u \in DOMAIN down_since
                /\ Get(down_since', u, NoTime) = Get(down_since, u, NoTime)
                /\ u \in alerted' <=> u \in alerted
                /\ Get(ok_streak', u, 0) = Streak(u)
                /\ u \in DOMAIN ok_streak' <=> u \in DOMAIN ok_streak
                /\ last_msg'[u] = last_msg[u]
          /\ (Get(ok_streak', u, 0) > Streak(u)
                \/ (u \in alerted /\ u \notin alerted')) =>
                /\ chk_pc' = chk_pc
                /\ run_ok'[u] > 0]_vars

\* Between two cycles an alerted url holds a positive streak, and an
\* on-demand check that ran after the cycle's results were handled has
\* opened another url's incident.
C20_Witness ==
    /\ mon_pc = "sleep"
    /\ chk_pc = "idle"
    /\ \E u \in alerted : Streak(u) > 0
    /\ \E v \in DOMAIN down_since \ alerted : down_since[v] > mon_now
====
